---- MODULE Spec2Model ----
(***************************************************************************)
(* Model of the Nexus backend query handlers.                              *)
(*                                                                         *)
(*   backend/main_robust.py : /api/query with Mistral -> OpenAI fallback    *)
(*                            and execute_with_retry (rate-limit backoff)   *)
(*   backend/main.py        : /query with tool-registry instance selection, *)
(*                            the poll loop and result extraction           *)
(*                                                                         *)
(* The two files are two separate server programs; each has its own        *)
(* specification (SpecRobust, SpecMain) over its own variables.             *)
(*                                                                         *)
(* Python values: a str is a TLA+ string; an Optional value is a sequence   *)
(* of length 0 (None) or 1 (<<v>>).  Wall-clock readings (time.time()) and  *)
(* opaque ids (plan_run.id) are not modelled.                               *)
(***************************************************************************)
EXTENDS Integers, Sequences, FiniteSets, TLC

VARIABLES
    portia_mistral,              \* main_robust: global instance present?
    portia_openai,               \* main_robust: global instance present?
    started,                     \* main_robust: lifespan startup has run
    loop,                        \* main_robust: request whose handler holds the event-loop thread (0: none)
    rq,                          \* main_robust: per request slot, the handler's frame
    portia_instance_cloud,       \* main: global instance present?
    portia_instance_open_source, \* main: global instance present?
    imported,                    \* main: module-level initialisation has run
    mloop,                       \* main: request whose handler holds the event-loop thread (0: none)
    mq,                          \* main: per request slot, the handler's frame and its run
    boot,                        \* main: module-level start-up, its cloud-registry load and worker thread
    ex                           \* main: a run handed to the extraction functions, and what they returned

robust_vars == <<portia_mistral, portia_openai, started, loop, rq>>
main_vars == <<portia_instance_cloud, portia_instance_open_source, imported, mloop, mq, boot,
              ex>>
vars == <<portia_mistral, portia_openai, started, loop, rq,
          portia_instance_cloud, portia_instance_open_source, imported, mloop, mq, boot,
          ex>>

(***************************************************************************)
(* Bounds                                                                  *)
(***************************************************************************)
NumRequests == 2
Requests == 1..NumRequests

(***************************************************************************)
(* Python values                                                           *)
(***************************************************************************)
None == <<>>
Some(x) == <<x>>
IsNone(o) == Len(o) = 0
Get(o) == o[1]

UpperCase == "ABCDEFGHIJKLMNOPQRSTUVWXYZ"
LowerCase == "abcdefghijklmnopqrstuvwxyz"
CharAt(s, i) == SubSeq(s, i, i)

\* str.lower() on one character
LowerChar(c) ==
    IF \E i \in 1..Len(UpperCase) : CharAt(UpperCase, i) = c
    THEN CharAt(LowerCase, CHOOSE i \in 1..Len(UpperCase) : CharAt(UpperCase, i) = c)
    ELSE c

RECURSIVE lower(_)
lower(s) == IF s = "" THEN "" ELSE LowerChar(CharAt(s, 1)) \o lower(SubSeq(s, 2, Len(s)))

\* pat in s
Contains(s, pat) ==
    \E i \in 1..(Len(s) - Len(pat) + 1) : SubSeq(s, i, i + Len(pat) - 1) = pat

Whitespace == {" ", "\t", "\n"}

RECURSIVE lstrip(_)
lstrip(s) == IF s # "" /\ CharAt(s, 1) \in Whitespace THEN lstrip(SubSeq(s, 2, Len(s))) ELSE s

RECURSIVE rstrip(_)
rstrip(s) ==
    IF s # "" /\ CharAt(s, Len(s)) \in Whitespace THEN rstrip(SubSeq(s, 1, Len(s) - 1)) ELSE s

\* str.strip()
strip(s) == rstrip(lstrip(s))

RECURSIVE Pow(_, _)
Pow(b, n) == IF n = 0 THEN 1 ELSE b * Pow(b, n - 1)

(***************************************************************************)
(* Inputs: request bodies and what the provider SDK can do on a run call   *)
(***************************************************************************)
Queries == {"", " ", " \t\n", "add 1 + 2", " hi "}

\* The model_preference field of a request body: absent, null, or a string.
PreferenceInputs ==
    {[given |-> FALSE, value |-> None]} \cup
    {[given |-> TRUE, value |-> v] :
        v \in {None, Some("mistral"), Some("openai"), Some("auto"), Some("gemini")}}

\* Texts of the exceptions a provider call raises.
Err429 == "Error 429: Too Many Requests"
ErrCapacity == "Service tier Capacity Exceeded"
ErrRateLimit == "Rate limit reached"
ErrQuota == "You exceeded your current quota"
ErrAuth == "Invalid API key"
ErrorTexts == {Err429, ErrCapacity, ErrRateLimit, ErrQuota, ErrAuth}

RunStates == {"PENDING", "RUNNING", "COMPLETE", "FAILED", "CANCELLED"}
TerminalStates == {"COMPLETE", "FAILED", "CANCELLED"}

Output(value, summary) == [value |-> value, summary |-> summary]

\* The plan runs Portia.run returns to main_robust: the SDK returns a PlanRun
\* in whatever state the run ended in; final_output is Optional.
RobustPlanRuns ==
    {[state |-> "COMPLETE", final_output |-> Some(Output(Some("7"), None)),
      step_outputs |-> <<>>],
     [state |-> "COMPLETE", final_output |-> Some(Output(Some("3"), Some("1 + 2 = 3"))),
      step_outputs |-> << <<"$calc", Output(Some("3"), None)>> >>],
     [state |-> "COMPLETE", final_output |-> None, step_outputs |-> <<>>],
     [state |-> "FAILED", final_output |-> Some(Output(Some("tool error"), None)),
      step_outputs |-> <<>>],
     [state |-> "CANCELLED", final_output |-> Some(Output(None, None)),
      step_outputs |-> <<>>]}

NoPlanRun == [state |-> "PENDING", final_output |-> None, step_outputs |-> <<>>]

Raise(text) == [kind |-> "raise", error |-> text, plan_run |-> NoPlanRun]
Return(plan_run) == [kind |-> "return", error |-> "", plan_run |-> plan_run]

RunOutcomes == {Raise(t) : t \in ErrorTexts} \cup {Return(p) : p \in RobustPlanRuns}

(***************************************************************************)
(* main_robust.py                                                          *)
(***************************************************************************)
MaxRetries == 2
BackoffBase == 2
BackoffUnit == 5

\* QueryRequest: model_preference defaults to "mistral" when the body omits it.
QueryRequest(query, pref) ==
    [query |-> query,
     model_preference |-> IF pref.given THEN pref.value ELSE Some("mistral")]

\* IsRateLimit comparing "capacity exceeded" without .lower()
IsRateLimit_CaseSensitive(error_str) ==
    Contains(error_str, "429") \/ Contains(error_str, "capacity exceeded")

\* The rate-limit test of execute_with_retry.
IsRateLimit(error_str) ==
    Contains(error_str, "429") \/ Contains(lower(error_str), "capacity exceeded")

\* time.sleep(wait_time) in an async handler: does the handler give the
\* event-loop thread back while it waits?  time.sleep is a blocking call, not
\* an await, so it does not.
SleepYieldsLoop == FALSE

Success(plan_run) == [success |-> TRUE, plan_run |-> plan_run, error |-> ""]
Failure(error) == [success |-> FALSE, plan_run |-> NoPlanRun, error |-> error]

\* execute_with_retry sleeping after a rate-limit error on the last attempt too
execute_with_retry_SleepOnLast(attempt, outcome) ==
    IF outcome.kind = "return"
    THEN [next |-> "return", result |-> Success(outcome.plan_run), wait_time |-> 0]
    ELSE IF IsRateLimit(outcome.error) /\ attempt <= MaxRetries
         THEN [next |-> "sleep", result |-> Failure(""),
               wait_time |-> Pow(BackoffBase, attempt) * BackoffUnit]
         ELSE [next |-> "return", result |-> Failure(outcome.error), wait_time |-> 0]

\* execute_with_retry retrying after every exception
execute_with_retry_RetryAnyError(attempt, outcome) ==
    IF outcome.kind = "return"
    THEN [next |-> "return", result |-> Success(outcome.plan_run), wait_time |-> 0]
    ELSE IF attempt < MaxRetries
         THEN [next |-> "sleep", result |-> Failure(""),
               wait_time |-> Pow(BackoffBase, attempt) * BackoffUnit]
         ELSE [next |-> "return", result |-> Failure(outcome.error), wait_time |-> 0]

\* execute_with_retry with the retry test off by one (attempt < max_retries - 1)
execute_with_retry_OneRetryLess(attempt, outcome) ==
    IF outcome.kind = "return"
    THEN [next |-> "return", result |-> Success(outcome.plan_run), wait_time |-> 0]
    ELSE IF IsRateLimit(outcome.error) /\ attempt < MaxRetries - 1
         THEN [next |-> "sleep", result |-> Failure(""),
               wait_time |-> Pow(BackoffBase, attempt) * BackoffUnit]
         ELSE [next |-> "return", result |-> Failure(outcome.error), wait_time |-> 0]

\* One iteration of execute_with_retry's loop body, given what run() did.
execute_with_retry(attempt, outcome) ==
    IF outcome.kind = "return"
    THEN [next |-> "return", result |-> Success(outcome.plan_run), wait_time |-> 0]
    ELSE IF IsRateLimit(outcome.error) /\ attempt < MaxRetries
         THEN [next |-> "sleep", result |-> Failure(""),
               wait_time |-> Pow(BackoffBase, attempt) * BackoffUnit]
         ELSE [next |-> "return", result |-> Failure(outcome.error), wait_time |-> 0]

RobustIdle ==
    [pc |-> "idle", supplied |-> FALSE, request |-> QueryRequest("", [given |-> FALSE, value |-> None]),
     provider |-> "none", attempt |-> 0, model_used |-> None,
     calls |-> <<>>, waits |-> <<>>, response |-> None]

HTTPError(status, detail) ==
    [kind |-> "HTTPException", status |-> status, success |-> FALSE, result |-> None,
     error |-> Some(detail), model_used |-> None]

\* RobustResponse reporting every failure with the no-provider text
RobustResponse_GenericError(result, model_used) ==
    IF IsNone(result) \/ ~Get(result).success
    THEN [kind |-> "QueryResponse", status |-> 200, success |-> FALSE, result |-> None,
          error |-> Some("No AI providers available"),
          model_used |-> model_used]
    ELSE LET plan_run == Get(result).plan_run IN
         IF IsNone(plan_run.final_output)
         THEN [kind |-> "UnhandledException", status |-> 500, success |-> FALSE,
               result |-> None, error |-> None, model_used |-> None]
         ELSE [kind |-> "QueryResponse", status |-> 200, success |-> TRUE,
               result |-> Some([state |-> plan_run.state,
                                final_output |-> Get(plan_run.final_output),
                                step_outputs |-> plan_run.step_outputs]),
               error |-> None, model_used |-> model_used]

\* Lines 279-315: the QueryResponse built from the last result (None: no
\* provider was tried).
RobustResponse(result, model_used) ==
    IF IsNone(result) \/ ~Get(result).success
    THEN [kind |-> "QueryResponse", status |-> 200, success |-> FALSE, result |-> None,
          error |-> Some(IF IsNone(result) THEN "No AI providers available"
                         ELSE Get(result).error),
          model_used |-> model_used]
    ELSE LET plan_run == Get(result).plan_run IN
         IF IsNone(plan_run.final_output)
         THEN \* plan_run.outputs.final_output.value: AttributeError on None
              [kind |-> "UnhandledException", status |-> 500, success |-> FALSE,
               result |-> None, error |-> None, model_used |-> None]
         ELSE [kind |-> "QueryResponse", status |-> 200, success |-> TRUE,
               result |-> Some([state |-> plan_run.state,
                                final_output |-> Get(plan_run.final_output),
                                step_outputs |-> plan_run.step_outputs]),
               error |-> None, model_used |-> model_used]

Finish(rec, result, model_used) ==
    [rec EXCEPT !.pc = "return", !.model_used = model_used,
                !.response = Some(RobustResponse(result, model_used))]

\* Line 258 without the model_preference test
TryMistral_AnyPreference(request) == portia_mistral

\* Line 258: is Mistral tried?
TryMistral(request) == request.model_preference # Some("openai") /\ portia_mistral

\* Line 269 without the test of the result so far
TryOpenAI_AfterSuccess(request, result) ==
    portia_openai /\ request.model_preference # Some("mistral")

\* Line 269: is OpenAI tried, given the result so far (None or a dict)?
TryOpenAI(request, result) ==
    /\ IsNone(result) \/ ~Get(result).success
    /\ portia_openai
    /\ request.model_preference # Some("mistral")

StartProvider(rec, name, model_used) ==
    [rec EXCEPT !.pc = "run", !.provider = name, !.attempt = 0, !.model_used = model_used]

\* AfterProvider labelling a fallback success with the last provider alone
AfterProvider_LastLabel(rec, result) ==
    IF rec.provider = "mistral"
    THEN IF TryOpenAI(rec.request, Some(result))
         THEN StartProvider(rec, "openai", Some("mistral"))
         ELSE Finish(rec, Some(result), Some("mistral"))
    ELSE Finish(rec, Some(result), Some("openai"))

\* process_query from the point where execute_with_retry returned `result`
\* for rec.provider.
AfterProvider(rec, result) ==
    IF rec.provider = "mistral"
    THEN IF TryOpenAI(rec.request, Some(result))
         THEN StartProvider(rec, "openai", Some("mistral"))
         ELSE Finish(rec, Some(result), Some("mistral"))
    ELSE Finish(rec, Some(result),
                IF IsNone(rec.model_used) THEN Some("openai")
                ELSE Some(Get(rec.model_used) \o "->openai"))

\* lifespan startup: setup_mistral_portia / setup_openai_portia return an
\* instance, or None (no API key, or the constructor raised).
lifespan(mistral_ok, openai_ok) ==
    /\ ~started
    /\ started' = TRUE
    /\ portia_mistral' = mistral_ok
    /\ portia_openai' = openai_ok
    /\ UNCHANGED <<loop, rq>>
    /\ UNCHANGED main_vars

\* process_query setting up a missing Mistral instance on demand
robust_process_query_LazyInit(r, query, pref) ==
    /\ started
    /\ loop = 0
    /\ rq[r].pc = "idle"
    /\ LET request == QueryRequest(query, pref)
           rec == [RobustIdle EXCEPT !.supplied = pref.given, !.request = request]
       IN  rq' = [rq EXCEPT ![r] =
                IF strip(request.query) = ""
                THEN [rec EXCEPT !.pc = "return",
                                 !.response = Some(HTTPError(400, "Query cannot be empty"))]
                ELSE IF TryMistral(request) THEN StartProvider(rec, "mistral", None)
                ELSE IF TryOpenAI(request, None) THEN StartProvider(rec, "openai", None)
                ELSE Finish(rec, None, None)]
    /\ loop' = r
    /\ portia_mistral' = TRUE
    /\ UNCHANGED <<portia_openai, started>>
    /\ UNCHANGED main_vars

\* POST /api/query: the handler from its entry to its first provider call
\* (or to its response, when no call is made).
robust_process_query(r, query, pref) ==
    /\ started
    /\ loop = 0
    /\ rq[r].pc = "idle"
    /\ LET request == QueryRequest(query, pref)
           rec == [RobustIdle EXCEPT !.supplied = pref.given, !.request = request]
       IN  rq' = [rq EXCEPT ![r] =
                IF strip(request.query) = ""
                THEN [rec EXCEPT !.pc = "return",
                                 !.response = Some(HTTPError(400, "Query cannot be empty"))]
                ELSE IF TryMistral(request) THEN StartProvider(rec, "mistral", None)
                ELSE IF TryOpenAI(request, None) THEN StartProvider(rec, "openai", None)
                ELSE Finish(rec, None, None)]
    /\ loop' = r
    /\ UNCHANGED <<portia_mistral, portia_openai, started>>
    /\ UNCHANGED main_vars

\* One portia_client.run(query) call inside execute_with_retry, and all the
\* handler does until it next sleeps or has its response.
run_attempt(r, outcome) ==
    /\ loop = r
    /\ rq[r].pc = "run"
    /\ LET rec == [rq[r] EXCEPT !.calls = Append(@, [provider |-> rq[r].provider,
                                                       outcome |-> outcome])]
           step == execute_with_retry(rec.attempt, outcome)
       IN  IF step.next = "sleep"
           THEN /\ rq' = [rq EXCEPT ![r] =
                        [rec EXCEPT !.pc = "sleep",
                                    !.waits = Append(@, [provider |-> rec.provider,
                                                         wait_time |-> step.wait_time])]]
                /\ loop' = IF SleepYieldsLoop THEN 0 ELSE r
           ELSE /\ rq' = [rq EXCEPT ![r] = AfterProvider(rec, step.result)]
                /\ loop' = r
    /\ UNCHANGED <<portia_mistral, portia_openai, started>>
    /\ UNCHANGED main_vars

\* time.sleep(wait_time) returns; `continue` takes the next attempt of
\* range(max_retries + 1), or falls out of the loop.
backoff_wake(r) ==
    /\ loop \in {0, r}
    /\ rq[r].pc = "sleep"
    /\ LET rec == [rq[r] EXCEPT !.attempt = @ + 1] IN
       rq' = [rq EXCEPT ![r] =
                IF rec.attempt < MaxRetries + 1
                THEN [rec EXCEPT !.pc = "run"]
                ELSE AfterProvider(rec, Failure("Max retries exceeded"))]
    /\ loop' = r
    /\ UNCHANGED <<portia_mistral, portia_openai, started>>
    /\ UNCHANGED main_vars

\* HealthResponse with `if not portia_mistral_ok` alone deciding "degraded"
HealthResponse_MistralOnly(portia_mistral_ok, portia_openai_ok) ==
    [kind |-> "HealthResponse",
     status |-> IF ~portia_mistral_ok THEN "degraded" ELSE "healthy",
     portia_mistral_configured |-> portia_mistral_ok,
     portia_openai_configured |-> portia_openai_ok]

\* GET /health, lines 174-195 (the fields read from the environment are left
\* out).
HealthResponse(portia_mistral_ok, portia_openai_ok) ==
    [kind |-> "HealthResponse",
     status |-> IF ~portia_mistral_ok /\ ~portia_openai_ok THEN "degraded"
                ELSE IF ~portia_mistral_ok THEN "fallback_mode"
                ELSE "healthy",
     portia_mistral_configured |-> portia_mistral_ok,
     portia_openai_configured |-> portia_openai_ok]

robust_health_check(r) ==
    /\ started
    /\ loop = 0
    /\ rq[r].pc = "idle"
    /\ rq' = [rq EXCEPT ![r] =
                [RobustIdle EXCEPT !.pc = "return",
                                   !.response = Some(HealthResponse(portia_mistral,
                                                                    portia_openai))]]
    /\ loop' = r
    /\ UNCHANGED <<portia_mistral, portia_openai, started>>
    /\ UNCHANGED main_vars

\* GET /api/status, lines 317-342: providers.<name>.available
get_status(r) ==
    /\ started
    /\ loop = 0
    /\ rq[r].pc = "idle"
    /\ rq' = [rq EXCEPT ![r] =
                [RobustIdle EXCEPT !.pc = "return",
                                   !.response = Some([kind |-> "Status",
                                                      mistral_available |-> portia_mistral,
                                                      openai_available |-> portia_openai])]]
    /\ loop' = r
    /\ UNCHANGED <<portia_mistral, portia_openai, started>>
    /\ UNCHANGED main_vars

\* The handler returns (or raises): the response goes to the client, the
\* handler's frame is gone and the event loop is free again.
send_response(r) ==
    /\ loop = r
    /\ rq[r].pc = "return"
    /\ rq' = [rq EXCEPT ![r] = RobustIdle]
    /\ loop' = 0
    /\ UNCHANGED <<portia_mistral, portia_openai, started>>
    /\ UNCHANGED main_vars

(***************************************************************************)
(* main.py                                                                 *)
(***************************************************************************)
MaxWait == 60
PollInterval == 2

Messages == {"", " \t", "What is 9 + 12?"}
ToolRegistries == {"cloud", "open_source", "default", "combined", "custom"}

\* A clarification is a dict read with .get and defaults.
ClarificationLists ==
    {<<>>,
     <<[type |-> Some("oauth"), message |-> Some("Authorize Gmail")]>>,
     <<[type |-> None, message |-> None],
       [type |-> Some("oauth"), message |-> Some("Authorize Gmail")]>>}

\* What extraction reads of a run: run.result (absent, or a value) and
\* run.outputs {final_output, step_outputs}.  step_outputs is an ordered
\* mapping: a sequence of <<key, output>> with distinct keys.
FinalOutputs ==
    {None, Some(Output(None, None)), Some(Output(Some("7"), None)),
     Some(Output(Some("7"), Some(""))),
     Some(Output(Some("7"), Some("The sum is 7"))), Some(Output(Some(""), Some("")))}
StepOutputMaps ==
    {<<>>,
     << <<"$result", Output(Some("21"), None)>> >>,
     << <<"$result", Output(Some("21"), Some(""))>> >>,
     << <<"$result", Output(Some(""), None)>> >>,
     << <<"calculator", Output(Some("21"), None)>> >>,
     << <<"search", Output(None, None)>>, <<"$result", Output(Some(""), Some("Found 21"))>>,
        <<"calculator", Output(Some("21"), None)>> >>}
RunOutputs ==
    {None} \cup {Some([final_output |-> f, step_outputs |-> s]) :
                    f \in FinalOutputs, s \in StepOutputMaps}
Payloads == [result : {None, Some(""), Some("R")}, outputs : RunOutputs]
NoPayload == [result |-> None, outputs |-> None]

\* The payloads the /query handler is run against.
MainPayloads ==
    {NoPayload,
     [result |-> Some(""), outputs |-> None],
     [result |-> Some("R"),
      outputs |-> Some([final_output |-> Some(Output(Some("7"), Some("The sum is 7"))),
                        step_outputs |-> <<>>])],
     [result |-> None,
      outputs |-> Some([final_output |-> Some(Output(Some("7"), None)),
                        step_outputs |-> <<>>])],
     [result |-> None,
      outputs |-> Some([final_output |-> Some(Output(Some(""), Some(""))),
                        step_outputs |-> << <<"calculator", Output(Some("21"), None)>> >>])],
     [result |-> None,
      outputs |-> Some([final_output |-> None,
                        step_outputs |->
                            << <<"search", Output(None, None)>>,
                               <<"$result", Output(Some(""), Some("Found 21"))>>,
                               <<"calculator", Output(Some("21"), None)>> >>])],
     [result |-> None,
      outputs |-> Some([final_output |-> None, step_outputs |-> <<>>])]}

RunErrors == {None, Some("tool crashed")}

Truthy(text) == ~IsNone(text) /\ Get(text) # ""

HasKey(map, key) == \E i \in 1..Len(map) : map[i][1] = key
Lookup(map, key) == map[CHOOSE i \in 1..Len(map) : map[i][1] = key][2]

\* extract_result_from_run reading outputs.final_output before run.result
extract_result_from_run_OutputsFirst(run) ==
    LET final_out == IF IsNone(run.outputs) THEN None ELSE Get(run.outputs).final_output
        steps == IF IsNone(run.outputs) THEN <<>> ELSE Get(run.outputs).step_outputs
    IN  IF ~IsNone(final_out) /\ Truthy(Get(final_out).summary) THEN Get(final_out).summary
        ELSE IF ~IsNone(final_out) /\ Truthy(Get(final_out).value) THEN Get(final_out).value
        ELSE IF ~IsNone(run.result) THEN run.result
        ELSE IF Len(steps) > 0 /\ HasKey(steps, "$result")
            THEN LET step_result == Lookup(steps, "$result") IN
                 IF Truthy(step_result.summary) THEN step_result.summary
                 ELSE IF Truthy(step_result.value) THEN step_result.value
                 ELSE None
        ELSE None

\* extract_result_from_run: Optional[str]
extract_result_from_run(run) ==
    IF ~IsNone(run.result) THEN run.result
    ELSE IF IsNone(run.outputs) THEN None
    ELSE LET outputs == Get(run.outputs)
             final_out == outputs.final_output
             steps == outputs.step_outputs
         IN  IF ~IsNone(final_out) /\ Truthy(Get(final_out).summary)
                 THEN Get(final_out).summary
             ELSE IF ~IsNone(final_out) /\ Truthy(Get(final_out).value)
                 THEN Get(final_out).value
             ELSE IF Len(steps) > 0 /\ HasKey(steps, "$result")
                 THEN LET step_result == Lookup(steps, "$result") IN
                      IF Truthy(step_result.summary) THEN step_result.summary
                      ELSE IF Truthy(step_result.value) THEN step_result.value
                      ELSE None
             ELSE None

RECURSIVE StepNames(_)
StepNames(steps) ==
    IF steps = <<>> THEN <<>>
    ELSE (IF Head(steps)[1] # "$result" THEN <<Head(steps)[1]>> ELSE <<>>)
         \o StepNames(Tail(steps))

\* extract_tools_used without the step_name != '$result' test
extract_tools_used_AllKeys(run) ==
    LET steps == IF IsNone(run.outputs) THEN <<>> ELSE Get(run.outputs).step_outputs
        tools_used == [i \in 1..Len(steps) |-> steps[i][1]]
    IN  IF tools_used # <<>> THEN Some(tools_used) ELSE None

\* extract_tools_used: Optional[List[str]]
extract_tools_used(run) ==
    LET tools_used == IF IsNone(run.outputs) THEN <<>>
                      ELSE StepNames(Get(run.outputs).step_outputs)
    IN  IF tools_used # <<>> THEN Some(tools_used) ELSE None

\* ClarificationModel(...) from the first clarification, with the .get defaults
ClarificationModel(clarification, default_message) ==
    [type |-> IF IsNone(clarification.type) THEN "user_input" ELSE Get(clarification.type),
     message |-> IF IsNone(clarification.message) THEN default_message
                 ELSE Get(clarification.message)]

QueryResponse(success, result, tools_used, error, tool_registry_used) ==
    [kind |-> "QueryResponse", success |-> success, result |-> result,
     tools_used |-> tools_used, error |-> error,
     tool_registry_used |-> tool_registry_used,
     clarification |-> None, requires_user_action |-> FALSE]

ErrorResponse(error_msg) == QueryResponse(FALSE, None, None, Some(error_msg), None)

MainIdle ==
    [pc |-> "idle", handler |-> "none", message |-> "", tool_registry |-> "combined",
     registry_used |-> "none", runs |-> <<>>, lookups |-> <<>>, responded |-> <<>>,
     run |-> [state |-> "PENDING", clarifications |-> <<>>],
     waited |-> 0, polls |-> 0, current_state |-> "none", final_state |-> "none", payload |-> NoPayload,
     response |-> None]

\* Lines 385-417: the instance the query runs on ("none": ValueError).
\* SelectInstance preferring the cloud instance whatever registry is requested
SelectInstance_CloudFirst(tool_registry) ==
    IF portia_instance_cloud THEN "cloud"
    ELSE IF portia_instance_open_source THEN "open_source"
    ELSE "none"

\* Lines 385-417: the instance /query runs on.
SelectInstance(tool_registry) ==
    IF tool_registry = "cloud" /\ portia_instance_cloud THEN "cloud"
    ELSE IF tool_registry = "open_source" /\ portia_instance_open_source THEN "open_source"
    ELSE IF portia_instance_cloud THEN "cloud"
    ELSE IF portia_instance_open_source THEN "open_source"
    ELSE "none"

\* FinalResponse without the `if result_text` test
FinalResponse_NoTextTest(final_state, payload, run_error, registry_used) ==
    IF final_state = "COMPLETE"
    THEN QueryResponse(TRUE, extract_result_from_run(payload), extract_tools_used(payload),
                       None, Some(registry_used))
    ELSE IF final_state = "FAILED"
    THEN ErrorResponse("Run failed: " \o
                       (IF IsNone(run_error) THEN "Unknown error" ELSE Get(run_error)))
    ELSE ErrorResponse("Run timeout or cancelled (state: " \o final_state \o ")")

\* Lines 466-506: the response chosen from the final state read.
FinalResponse(final_state, payload, run_error, registry_used) ==
    IF final_state = "COMPLETE"
    THEN LET result_text == extract_result_from_run(payload) IN
         IF Truthy(result_text)
         THEN QueryResponse(TRUE, result_text, extract_tools_used(payload), None,
                            Some(registry_used))
         ELSE ErrorResponse("No result found in completed run")
    ELSE IF final_state = "FAILED"
    THEN ErrorResponse("Run failed: " \o
                       (IF IsNone(run_error) THEN "Unknown error" ELSE Get(run_error)))
    ELSE ErrorResponse("Run timeout or cancelled (state: " \o final_state \o ")")

\* ClarificationFinalResponse without the `if result_text` test
ClarificationFinalResponse_NoTextTest(final_state, payload, registry_used) ==
    IF final_state = "COMPLETE"
    THEN QueryResponse(TRUE, extract_result_from_run(payload), extract_tools_used(payload),
                       None, Some(registry_used))
    ELSE ErrorResponse("Task failed with state: " \o final_state)

\* handle_clarification, lines 614-641: the response chosen from the final
\* state read.
ClarificationFinalResponse(final_state, payload, registry_used) ==
    IF final_state = "COMPLETE"
    THEN LET result_text == extract_result_from_run(payload) IN
         IF Truthy(result_text)
         THEN QueryResponse(TRUE, result_text, extract_tools_used(payload), None,
                            Some(registry_used))
         ELSE ErrorResponse("Task completed but no result was returned")
    ELSE ErrorResponse("Task failed with state: " \o final_state)

\* The module's start-up: initialize_tool_registries(), then
\* initialize_providers().  Both may call load_portia_registry_with_timeout,
\* which hands PortiaToolRegistry(config) to a worker thread of a
\* ThreadPoolExecutor used as a context manager.
\*   pc      "module": before initialize_tool_registries; "future_result": in
\*           future.result(timeout); "executor_exit": leaving the with block
\*           with the value to return; "providers": before
\*           initialize_providers; "create": before its try block; "ready"
\*   worker  the submitted call: "idle" (none), "running" (will finish),
\*           "hung" (never finishes), "returned", "raised"
BootStart ==
    [pc |-> "module", caller |-> "none", worker |-> "idle", registry |-> FALSE,
     timed_out |-> FALSE, PORTIA_API_KEY |-> FALSE, cloud_registry |-> FALSE,
     shared_cloud_registry |-> FALSE, fallback |-> "none"]

\* executor.submit(PortiaToolRegistry, config=config), then future.result
Submit(b, caller, completes) ==
    [b EXCEPT !.pc = "future_result", !.caller = caller,
              !.worker = IF completes THEN "running" ELSE "hung",
              !.registry = FALSE, !.timed_out = FALSE]

\* Lines 129-157.  Without PORTIA_API_KEY nothing is loaded.
initialize_tool_registries(key, completes) ==
    /\ boot.pc = "module"
    /\ boot' = IF key THEN Submit([boot EXCEPT !.PORTIA_API_KEY = TRUE], "tools", completes)
                      ELSE [boot EXCEPT !.pc = "providers"]
    /\ UNCHANGED <<portia_instance_cloud, portia_instance_open_source, imported, mloop, mq, ex>>
    /\ UNCHANGED robust_vars

\* The worker thread: PortiaToolRegistry(config) returns or raises.
registry_worker(outcome) ==
    /\ boot.worker = "running"
    /\ boot' = [boot EXCEPT !.worker = outcome]
    /\ UNCHANGED <<portia_instance_cloud, portia_instance_open_source, imported, mloop, mq, ex>>
    /\ UNCHANGED robust_vars

\* future.result(timeout=15) comes back: with the registry, with the
\* worker's exception, or with TimeoutError while the worker is not done.
\* Each branch ends in a return statement inside the with block.
future_result ==
    /\ boot.pc = "future_result"
    /\ boot' = [boot EXCEPT !.pc = "executor_exit",
                            !.registry = (boot.worker = "returned"),
                            !.timed_out = (boot.worker \in {"running", "hung"})]
    /\ UNCHANGED <<portia_instance_cloud, portia_instance_open_source, imported, mloop, mq, ex>>
    /\ UNCHANGED robust_vars

\* The return leaves the with block: Executor.__exit__ is
\* shutdown(wait=True), which joins the worker thread; only then does
\* load_portia_registry_with_timeout return to its caller.
executor_exit ==
    /\ boot.pc = "executor_exit"
    /\ boot.worker \in {"returned", "raised"}
    /\ boot' = IF boot.caller = "tools"
               THEN [boot EXCEPT !.pc = "providers", !.worker = "idle", !.caller = "none",
                                 !.cloud_registry = boot.registry, !.registry = FALSE,
                                 !.timed_out = FALSE]
               ELSE [boot EXCEPT !.pc = "create", !.worker = "idle", !.caller = "none",
                                 !.shared_cloud_registry = boot.registry, !.registry = FALSE,
                                 !.timed_out = FALSE]
    /\ UNCHANGED <<portia_instance_cloud, portia_instance_open_source, imported, mloop, mq, ex>>
    /\ UNCHANGED robust_vars

\* initialize_providers, lines 177-185: reuse cloud_registry, or load again.
initialize_providers_registry(completes) ==
    /\ boot.pc = "providers"
    /\ boot' = IF boot.PORTIA_API_KEY /\ boot.cloud_registry
               THEN [boot EXCEPT !.pc = "create", !.shared_cloud_registry = TRUE]
               ELSE IF boot.PORTIA_API_KEY THEN Submit(boot, "providers", completes)
               ELSE [boot EXCEPT !.pc = "create"]
    /\ UNCHANGED <<portia_instance_cloud, portia_instance_open_source, imported, mloop, mq, ex>>
    /\ UNCHANGED robust_vars

\* initialize_providers, lines 187-251: the globals are assigned one by one
\* inside the try; fail_at says which step raised ("none": nothing did).
\* When one did, the except branch builds an open-source-only Portia and
\* binds it to the local name portia_instance (fallback_built: the
\* construction succeeded); boot.fallback keeps what became of that local,
\* which the program itself drops when the function returns, as it does the
\* local shared_cloud_registry.
initialize_providers(shared_cloud_registry, fail_at, fallback_built) ==
    /\ ~imported
    /\ boot.pc = "create"
    /\ shared_cloud_registry = boot.shared_cloud_registry
    /\ fail_at = "none" => ~fallback_built
    /\ boot' = [boot EXCEPT !.pc = "ready", !.shared_cloud_registry = FALSE,
                            !.fallback = IF fail_at = "none" THEN "none"
                                         ELSE IF fallback_built THEN "built"
                                         ELSE "failed"]
    /\ imported' = TRUE
    /\ portia_instance_cloud' =
            (shared_cloud_registry /\ fail_at \in {"none", "open_source"})
    /\ portia_instance_open_source' = (fail_at = "none")
    /\ UNCHANGED <<mloop, mq, ex>>
    /\ UNCHANGED robust_vars

\* POST /query: the handler from its entry through portia_instance.run(message).
main_process_query(r, message, tool_registry, outcome) ==
    /\ imported
    /\ mloop = 0
    /\ mq[r].pc = "idle"
    /\ LET registry_used == SelectInstance(tool_registry)
           rec == [MainIdle EXCEPT !.handler = "query", !.message = message,
                                   !.tool_registry = tool_registry,
                                   !.registry_used = registry_used]
           fail(msg) == [rec EXCEPT !.pc = "return", !.response = Some(ErrorResponse(msg))]
       IN  mq' = [mq EXCEPT ![r] =
                IF registry_used = "none" THEN fail("No Portia instances available")
                ELSE IF message = "" \/ strip(message) = ""
                    THEN fail("Empty message provided")
                ELSE IF outcome.kind = "raise"
                    THEN [fail(outcome.error) EXCEPT !.runs = <<registry_used>>]
                ELSE [rec EXCEPT !.pc = "poll", !.runs = <<registry_used>>,
                                 !.run = outcome.run]]
    /\ mloop' = r
    /\ UNCHANGED <<portia_instance_cloud, portia_instance_open_source, imported, boot, ex>>
    /\ UNCHANGED robust_vars

\* handle_clarification asking the open-source instance whatever the cloud
\* lookup gave
handle_clarification_BothLookups(r, plan_run_id, get_cloud, get_open_source, respond, run) ==
    /\ imported
    /\ mloop = 0
    /\ mq[r].pc = "idle"
    /\ LET in_cloud == portia_instance_cloud /\ get_cloud = "found"
           try_open_source == portia_instance_open_source
           lookups == (IF portia_instance_cloud THEN <<"cloud">> ELSE <<>>) \o
                      (IF try_open_source THEN <<"open_source">> ELSE <<>>)
           found == IF in_cloud THEN "cloud"
                    ELSE IF try_open_source /\ get_open_source = "found" THEN "open_source"
                    ELSE "none"
           rec == [MainIdle EXCEPT !.handler = "clarification", !.lookups = lookups,
                                   !.registry_used = found,
                                   !.responded = IF found = "none" THEN <<>> ELSE <<found>>]
           fail(msg) == [rec EXCEPT !.pc = "return",
                             !.response = Some(ErrorResponse("Clarification handling failed: "
                                                             \o msg))]
       IN  mq' = [mq EXCEPT ![r] =
                IF found = "none" THEN fail("Plan run not found: " \o plan_run_id)
                ELSE IF respond.kind = "raise"
                    THEN fail("Failed to respond to clarification: " \o respond.error)
                ELSE [rec EXCEPT !.pc = "poll", !.run = run]]
    /\ mloop' = r
    /\ UNCHANGED <<portia_instance_cloud, portia_instance_open_source, imported, boot, ex>>
    /\ UNCHANGED robust_vars

\* POST /clarification: the handler from its entry through
\* run.respond_to_clarification(response).  get_cloud / get_open_source say
\* what get_run(plan_run_id) does on each instance ("found" or "raise"),
\* respond what respond_to_clarification does; run is the run as it is then.
\* lookups lists the instances get_run was called on, responded the instance
\* whose run respond_to_clarification was called on.
handle_clarification(r, plan_run_id, get_cloud, get_open_source, respond, run) ==
    /\ imported
    /\ mloop = 0
    /\ mq[r].pc = "idle"
    /\ LET in_cloud == portia_instance_cloud /\ get_cloud = "found"
           try_open_source == ~in_cloud /\ portia_instance_open_source
           lookups == (IF portia_instance_cloud THEN <<"cloud">> ELSE <<>>) \o
                      (IF try_open_source THEN <<"open_source">> ELSE <<>>)
           found == IF in_cloud THEN "cloud"
                    ELSE IF try_open_source /\ get_open_source = "found" THEN "open_source"
                    ELSE "none"
           rec == [MainIdle EXCEPT !.handler = "clarification", !.lookups = lookups,
                                   !.registry_used = found,
                                   !.responded = IF found = "none" THEN <<>> ELSE <<found>>]
           fail(msg) == [rec EXCEPT !.pc = "return",
                             !.response = Some(ErrorResponse("Clarification handling failed: "
                                                             \o msg))]
       IN  mq' = [mq EXCEPT ![r] =
                IF found = "none" THEN fail("Plan run not found: " \o plan_run_id)
                ELSE IF respond.kind = "raise"
                    THEN fail("Failed to respond to clarification: " \o respond.error)
                ELSE [rec EXCEPT !.pc = "poll", !.run = run]]
    /\ mloop' = r
    /\ UNCHANGED <<portia_instance_cloud, portia_instance_open_source, imported, boot, ex>>
    /\ UNCHANGED robust_vars

\* main_poll with the loop test waited <= max_wait
main_poll_Inclusive(r) ==
    /\ mloop = r
    /\ mq[r].pc = "poll"
    /\ LET rec == mq[r]
           run == rec.run
       IN  mq' = [mq EXCEPT ![r] =
                IF ~(rec.waited <= MaxWait) THEN [rec EXCEPT !.pc = "final"]
                ELSE IF run.clarifications # <<>>
                    THEN [rec EXCEPT
                            !.pc = "return", !.current_state = run.state, !.polls = @ + 1,
                            !.response = Some(
                                [QueryResponse(FALSE, None, None, None, Some(rec.registry_used))
                                 EXCEPT !.clarification =
                                            Some(ClarificationModel(run.clarifications[1],
                                                    IF rec.handler = "query"
                                                    THEN "User action required"
                                                    ELSE "Additional user action required")),
                                        !.requires_user_action = TRUE])]
                ELSE IF run.state \in {"COMPLETE", "FAILED", "CANCELLED"}
                    THEN [rec EXCEPT !.pc = "final", !.current_state = run.state,
                                     !.polls = @ + 1]
                ELSE [rec EXCEPT !.pc = "sleep", !.current_state = run.state,
                                 !.polls = @ + 1]]
    /\ mloop' = IF mq'[r].pc = "sleep" /\ SleepYieldsLoop THEN 0 ELSE r
    /\ UNCHANGED <<portia_instance_cloud, portia_instance_open_source, imported, boot, ex>>
    /\ UNCHANGED robust_vars

\* main_poll testing for a terminal state before the clarifications
main_poll_TerminalFirst(r) ==
    /\ mloop = r
    /\ mq[r].pc = "poll"
    /\ LET rec == mq[r]
           run == rec.run
       IN  mq' = [mq EXCEPT ![r] =
                IF ~(rec.waited < MaxWait) THEN [rec EXCEPT !.pc = "final"]
                ELSE IF run.state \in {"COMPLETE", "FAILED", "CANCELLED"}
                    THEN [rec EXCEPT !.pc = "final", !.current_state = run.state,
                                     !.polls = @ + 1]
                ELSE IF run.clarifications # <<>>
                    THEN [rec EXCEPT
                            !.pc = "return", !.current_state = run.state, !.polls = @ + 1,
                            !.response = Some(
                                [QueryResponse(FALSE, None, None, None, Some(rec.registry_used))
                                 EXCEPT !.clarification =
                                            Some(ClarificationModel(run.clarifications[1],
                                                    IF rec.handler = "query"
                                                    THEN "User action required"
                                                    ELSE "Additional user action required")),
                                        !.requires_user_action = TRUE])]
                ELSE [rec EXCEPT !.pc = "sleep", !.current_state = run.state,
                                 !.polls = @ + 1]]
    /\ mloop' = IF mq'[r].pc = "sleep" /\ SleepYieldsLoop THEN 0 ELSE r
    /\ UNCHANGED <<portia_instance_cloud, portia_instance_open_source, imported, boot, ex>>
    /\ UNCHANGED robust_vars

\* One test of `while waited < max_wait` and, when it passes, the loop body
\* up to time.sleep(2); the same loop in both handlers, but for the default
\* text of a clarification without message.
main_poll(r) ==
    /\ mloop = r
    /\ mq[r].pc = "poll"
    /\ LET rec == mq[r]
           run == rec.run
       IN  mq' = [mq EXCEPT ![r] =
                IF ~(rec.waited < MaxWait) THEN [rec EXCEPT !.pc = "final"]
                ELSE IF run.clarifications # <<>>
                    THEN [rec EXCEPT
                            !.pc = "return", !.current_state = run.state, !.polls = @ + 1,
                            !.response = Some(
                                [QueryResponse(FALSE, None, None, None, Some(rec.registry_used))
                                 EXCEPT !.clarification =
                                            Some(ClarificationModel(run.clarifications[1],
                                                    IF rec.handler = "query"
                                                    THEN "User action required"
                                                    ELSE "Additional user action required")),
                                        !.requires_user_action = TRUE])]
                ELSE IF run.state \in {"COMPLETE", "FAILED", "CANCELLED"}
                    THEN [rec EXCEPT !.pc = "final", !.current_state = run.state,
                                     !.polls = @ + 1]
                ELSE [rec EXCEPT !.pc = "sleep", !.current_state = run.state,
                                 !.polls = @ + 1]]
    /\ mloop' = IF mq'[r].pc = "sleep" /\ SleepYieldsLoop THEN 0 ELSE r
    /\ UNCHANGED <<portia_instance_cloud, portia_instance_open_source, imported, boot, ex>>
    /\ UNCHANGED robust_vars

\* time.sleep(2) returns; waited += 2
main_wake(r) ==
    /\ mloop \in {0, r}
    /\ mq[r].pc = "sleep"
    /\ mq' = [mq EXCEPT ![r].pc = "poll", ![r].waited = @ + PollInterval]
    /\ mloop' = r
    /\ UNCHANGED <<portia_instance_cloud, portia_instance_open_source, imported, boot, ex>>
    /\ UNCHANGED robust_vars

\* main_final choosing the branch from the last polled current_state
main_final_LastPolled(r, payload, run_error) ==
    /\ mloop = r
    /\ mq[r].pc = "final"
    /\ mq[r].run.state # "COMPLETE" => payload = NoPayload
    /\ (mq[r].run.state # "FAILED" \/ mq[r].handler # "query") => run_error = None
    /\ LET rec == mq[r] IN
       mq' = [mq EXCEPT ![r] =
                [rec EXCEPT !.pc = "return", !.final_state = rec.current_state,
                            !.payload = payload,
                            !.response = Some(
                                IF rec.handler = "query"
                                THEN FinalResponse(rec.current_state, payload, run_error,
                                                   rec.registry_used)
                                ELSE ClarificationFinalResponse(rec.current_state, payload,
                                                                rec.registry_used))]]
    /\ mloop' = r
    /\ UNCHANGED <<portia_instance_cloud, portia_instance_open_source, imported, boot, ex>>
    /\ UNCHANGED robust_vars

\* final_state = run.state.value and the response built from it; the run's
\* result, outputs and error attributes are read here, once.
main_final(r, payload, run_error) ==
    /\ mloop = r
    /\ mq[r].pc = "final"
    /\ mq[r].run.state # "COMPLETE" => payload = NoPayload
    /\ (mq[r].run.state # "FAILED" \/ mq[r].handler # "query") => run_error = None
    /\ LET rec == mq[r] IN
       mq' = [mq EXCEPT ![r] =
                [rec EXCEPT !.pc = "return", !.final_state = rec.run.state, !.payload = payload,
                            !.response = Some(
                                IF rec.handler = "query"
                                THEN FinalResponse(rec.run.state, payload, run_error,
                                                   rec.registry_used)
                                ELSE ClarificationFinalResponse(rec.run.state, payload,
                                                                rec.registry_used))]]
    /\ mloop' = r
    /\ UNCHANGED <<portia_instance_cloud, portia_instance_open_source, imported, boot, ex>>
    /\ UNCHANGED robust_vars

\* The provider SDK, which owns the run, moves it on while the handler waits.
sdk_advance(r, state, clarifications) ==
    /\ mq[r].pc \in {"poll", "sleep", "final"}
    /\ mq[r].run.state \notin TerminalStates
    /\ state # "PENDING"
    /\ [state |-> state, clarifications |-> clarifications] # mq[r].run
    /\ mq' = [mq EXCEPT ![r].run = [state |-> state, clarifications |-> clarifications]]
    /\ UNCHANGED <<portia_instance_cloud, portia_instance_open_source, imported, mloop, boot, ex>>
    /\ UNCHANGED robust_vars

\* GET /health, lines 287-309: provider.available and cloud_registry
main_health_check(r) ==
    /\ imported
    /\ mloop = 0
    /\ mq[r].pc = "idle"
    /\ mq' = [mq EXCEPT ![r] =
                [MainIdle EXCEPT !.pc = "return", !.handler = "health",
                                 !.response = Some(
                                    [kind |-> "Health", status |-> "healthy",
                                     provider_available |->
                                        (portia_instance_cloud \/ portia_instance_open_source),
                                     cloud_registry_available |-> boot.cloud_registry,
                                     authenticated |-> boot.PORTIA_API_KEY])]]
    /\ mloop' = r
    /\ UNCHANGED <<portia_instance_cloud, portia_instance_open_source, imported, boot, ex>>
    /\ UNCHANGED robust_vars

main_send_response(r) ==
    /\ mloop = r
    /\ mq[r].pc = "return"
    /\ mq' = [mq EXCEPT ![r] = MainIdle]
    /\ mloop' = 0
    /\ UNCHANGED <<portia_instance_cloud, portia_instance_open_source, imported, boot, ex>>
    /\ UNCHANGED robust_vars

\* The extraction functions on their own: ex.run is the run object passed in
\* (given: as it was when first passed), result_text / tools_used what the
\* latest call returned, first_text / first_tools what the first call
\* returned; each function is called up to MaxCalls times on the same object.
MaxCalls == 2

ExStart(run) ==
    [run |-> run, given |-> run,
     result_called |-> FALSE, result_calls |-> 0, result_text |-> None, first_text |-> None,
     tools_called |-> FALSE, tools_calls |-> 0, tools_used |-> None, first_tools |-> None]

\* extract_result_from_run taking result off the run object as it reads it
call_extract_result_from_run_Consuming ==
    /\ ex.result_calls < MaxCalls
    /\ LET text == extract_result_from_run(ex.run) IN
       ex' = [ex EXCEPT !.result_called = TRUE, !.result_calls = @ + 1,
                        !.result_text = text,
                        !.first_text = IF ex.result_called THEN @ ELSE text,
                        !.run.result = None]
    /\ UNCHANGED <<portia_instance_cloud, portia_instance_open_source, imported, mloop, mq,
                   boot>>
    /\ UNCHANGED robust_vars

call_extract_result_from_run ==
    /\ ex.result_calls < MaxCalls
    /\ LET text == extract_result_from_run(ex.run) IN
       ex' = [ex EXCEPT !.result_called = TRUE, !.result_calls = @ + 1,
                        !.result_text = text,
                        !.first_text = IF ex.result_called THEN @ ELSE text]
    /\ UNCHANGED <<portia_instance_cloud, portia_instance_open_source, imported, mloop, mq,
                   boot>>
    /\ UNCHANGED robust_vars

call_extract_tools_used ==
    /\ ex.tools_calls < MaxCalls
    /\ LET tools == extract_tools_used(ex.run) IN
       ex' = [ex EXCEPT !.tools_called = TRUE, !.tools_calls = @ + 1,
                        !.tools_used = tools,
                        !.first_tools = IF ex.tools_called THEN @ ELSE tools]
    /\ UNCHANGED <<portia_instance_cloud, portia_instance_open_source, imported, mloop, mq,
                   boot>>
    /\ UNCHANGED robust_vars

RobustInit ==
    /\ portia_mistral = FALSE
    /\ portia_openai = FALSE
    /\ started = FALSE
    /\ loop = 0
    /\ rq = [r \in Requests |-> RobustIdle]

MainInit ==
    /\ portia_instance_cloud = FALSE
    /\ portia_instance_open_source = FALSE
    /\ imported = FALSE
    /\ mloop = 0
    /\ mq = [r \in Requests |-> MainIdle]
    /\ boot = BootStart

Init == RobustInit /\ MainInit /\ ex = ExStart(NoPayload)

ExtractInit == RobustInit /\ MainInit /\ ex \in {ExStart(run) : run \in Payloads}

ExtractNext == call_extract_result_from_run \/ call_extract_tools_used

SpecExtract == ExtractInit /\ [][ExtractNext]_vars

RobustNext ==
    \/ \E m \in BOOLEAN, o \in BOOLEAN : lifespan(m, o)
    \/ \E r \in Requests, q \in Queries, p \in PreferenceInputs : robust_process_query(r, q, p)
    \/ \E r \in Requests, o \in RunOutcomes : run_attempt(r, o)
    \/ \E r \in Requests : backoff_wake(r)
    \/ \E r \in Requests : robust_health_check(r)
    \/ \E r \in Requests : get_status(r)
    \/ \E r \in Requests : send_response(r)

SpecRobust == Init /\ [][RobustNext]_vars

MainRunOutcomes ==
    {[kind |-> "raise", error |-> t, run |-> MainIdle.run] : t \in {ErrAuth, Err429}} \cup
    {[kind |-> "return", error |-> "", run |-> [state |-> s, clarifications |-> c]] :
        s \in RunStates, c \in ClarificationLists}

PlanRunIds == {"prun-1"}
GetRunOutcomes == {"found", "raise"}
RespondOutcomes == {[kind |-> "return", error |-> ""], [kind |-> "raise", error |-> ErrAuth]}
RunsAfterRespond ==
    {[state |-> s, clarifications |-> c] : s \in RunStates, c \in ClarificationLists}

MainNext ==
    \/ \E k \in BOOLEAN, c \in BOOLEAN : initialize_tool_registries(k, c)
    \/ \E o \in {"returned", "raised"} : registry_worker(o)
    \/ future_result
    \/ executor_exit
    \/ \E c \in BOOLEAN : initialize_providers_registry(c)
    \/ \E c \in BOOLEAN, f \in {"none", "config", "cloud", "open_source"}, b \in BOOLEAN :
            initialize_providers(c, f, b)
    \/ \E r \in Requests, m \in Messages, t \in ToolRegistries, o \in MainRunOutcomes :
            main_process_query(r, m, t, o)
    \/ \E r \in Requests, id \in PlanRunIds, gc \in GetRunOutcomes, go \in GetRunOutcomes,
            a \in RespondOutcomes, run \in RunsAfterRespond :
            handle_clarification(r, id, gc, go, a, run)
    \/ \E r \in Requests : main_poll(r)
    \/ \E r \in Requests : main_wake(r)
    \/ \E r \in Requests, p \in MainPayloads, e \in RunErrors : main_final(r, p, e)
    \/ \E r \in Requests, s \in RunStates, c \in ClarificationLists : sdk_advance(r, s, c)
    \/ \E r \in Requests : main_health_check(r)
    \/ \E r \in Requests : main_send_response(r)

SpecMain == Init /\ [][MainNext]_vars

(***************************************************************************)
(* Properties                                                              *)
(***************************************************************************)
BlankTexts == {"", " ", " \t", " \t\n"}
RateLimitTexts == {Err429, ErrCapacity}

CallsOf(f, name) == SelectSeq(f.calls, LAMBDA c : c.provider = name)
WaitsOf(f, name) == SelectSeq(f.waits, LAMBDA w : w.provider = name)
Preference(f) == f.request.model_preference
Returned(c) == c.outcome.kind = "return"
Raised(c, texts) == c.outcome.kind = "raise" /\ c.outcome.error \in texts
RobustAnswer(r) == Get(rq[r].response)
MainAnswer(r) == Get(mq[r].response)

\* C1: when the first call, made on Mistral, returns a plan run, no other call
\* is made for the request (OpenAI is never invoked); and when that run
\* carries a final output the response is labelled "mistral" alone.
C1_FirstProviderAlone ==
    \A r \in Requests :
        LET f == rq[r] IN
        (f.calls # <<>> /\ f.calls[1].provider = "mistral" /\ Returned(f.calls[1]))
        => /\ Len(f.calls) = 1
           /\ f.pc = "return"
           /\ ~IsNone(f.calls[1].outcome.plan_run.final_output)
                => /\ RobustAnswer(r).kind = "QueryResponse"
                   /\ RobustAnswer(r).model_used = Some("mistral")

C1_Witness ==
    \E r \in Requests :
        LET f == rq[r] IN
        /\ f.pc = "return" /\ portia_openai
        /\ Preference(f) = Some("auto")
        /\ Len(f.calls) = 1 /\ f.calls[1].provider = "mistral" /\ Returned(f.calls[1])
        /\ f.calls[1].outcome.plan_run.state = "COMPLETE"
        /\ RobustAnswer(r).success
        /\ RobustAnswer(r).model_used = Some("mistral")

\* Mistral is finished with (the handler moved on to OpenAI or has its
\* response) and every call made on it raised a rate-limit error.
MistralAlwaysRateLimited(f) ==
    /\ f.pc = "return" \/ f.provider = "openai"
    /\ CallsOf(f, "mistral") # <<>>
    /\ \A i \in 1..Len(CallsOf(f, "mistral")) : Raised(CallsOf(f, "mistral")[i], RateLimitTexts)

\* C2 as stated: a provider that is rate-limited on every call is called
\* exactly max_retries times before the orchestrator moves on.
C2_ExactlyMaxRetriesCalls ==
    \A r \in Requests :
        MistralAlwaysRateLimited(rq[r]) => Len(CallsOf(rq[r], "mistral")) = MaxRetries

\* C2 amended: a provider that is rate-limited on every call is called exactly
\* max_retries + 1 times, with a wait of 5 * 2^n before retry n (strictly
\* increasing), and OpenAI is called only after all of these calls.
C2_MaxRetriesPlusOneCalls ==
    \A r \in Requests :
        LET f == rq[r]
            w == WaitsOf(f, "mistral")
        IN  /\ MistralAlwaysRateLimited(f)
                => /\ Len(CallsOf(f, "mistral")) = MaxRetries + 1
                   /\ Len(w) = MaxRetries
                   /\ \A n \in 1..Len(w) :
                        w[n].wait_time = BackoffUnit * Pow(BackoffBase, n - 1)
                   /\ \A n \in 1..Len(w), m \in 1..Len(w) :
                        n < m => w[n].wait_time < w[m].wait_time
            /\ \A i \in 1..Len(f.calls), j \in 1..Len(f.calls) :
                (f.calls[i].provider = "mistral" /\ f.calls[j].provider = "openai") => i < j

C2_Witness ==
    \E r \in Requests :
        LET f == rq[r] IN
        /\ MistralAlwaysRateLimited(f)
        /\ Len(CallsOf(f, "mistral")) = MaxRetries + 1
        /\ CallsOf(f, "openai") # <<>>
        /\ f.pc = "return"

\* C3: an empty or whitespace-only query is answered with the empty-query
\* rejection and no run call, whatever instances exist (main.py's /query).
C3_EmptyQueryRejected ==
    \A r \in Requests :
        (mq[r].pc = "return" /\ mq[r].handler = "query" /\ mq[r].message \in BlankTexts)
        => /\ mq[r].runs = <<>>
           /\ MainAnswer(r).error = Some("Empty message provided")

\* C4: with model_preference "auto", Mistral failing with a permanent error
\* and OpenAI returning a COMPLETE run whose final_output.value is "7", the
\* response is a success carrying "7" and labelled "mistral->openai"; OpenAI
\* is called right after Mistral's single call, without a wait.
C4_FallbackScenario ==
    \A r \in Requests :
        LET f == rq[r] IN
        (Preference(f) = Some("auto") /\ f.calls # <<>>
            /\ f.calls[1].provider = "mistral" /\ Raised(f.calls[1], {ErrAuth}))
        => /\ WaitsOf(f, "mistral") = <<>>
           /\ Len(CallsOf(f, "mistral")) = 1
           /\ (portia_openai /\ Len(f.calls) = 1) => (f.pc = "run" /\ f.provider = "openai")
           /\ Len(f.calls) > 1 => f.calls[2].provider = "openai"
           /\ (Len(f.calls) > 1 /\ Returned(f.calls[2])
                /\ f.calls[2].outcome.plan_run.state = "COMPLETE"
                /\ f.calls[2].outcome.plan_run.final_output = Some(Output(Some("7"), None)))
              => /\ f.pc = "return" /\ Len(f.calls) = 2
                 /\ RobustAnswer(r).success
                 /\ Get(RobustAnswer(r).result).final_output.value = Some("7")
                 /\ RobustAnswer(r).model_used = Some("mistral->openai")

C4_Witness ==
    \E r \in Requests :
        LET f == rq[r] IN
        /\ Preference(f) = Some("auto") /\ f.pc = "return"
        /\ Len(f.calls) = 2
        /\ f.calls[1].provider = "mistral" /\ Raised(f.calls[1], {ErrAuth})
        /\ f.calls[2].provider = "openai" /\ Returned(f.calls[2])
        /\ RobustAnswer(r).success
        /\ Get(RobustAnswer(r).result).final_output.value = Some("7")

\* The last call made on Mistral raised, i.e. Mistral was attempted and failed.
MistralFailed(f) ==
    /\ CallsOf(f, "mistral") # <<>>
    /\ CallsOf(f, "mistral")[Len(CallsOf(f, "mistral"))].outcome.kind = "raise"

\* C5: with model_preference "auto" or not supplied, a request on which
\* Mistral was attempted and failed is attempted on OpenAI when OpenAI is
\* configured.
C5_AutoOrUnsetUsesFullList ==
    \A r \in Requests :
        LET f == rq[r] IN
        (f.pc = "return" /\ (~f.supplied \/ Preference(f) = Some("auto"))
            /\ MistralFailed(f) /\ portia_openai)
        => CallsOf(f, "openai") # <<>>

\* The request names a provider the server has no instance of.
NamesUnconfigured(f) ==
    /\ f.supplied
    /\ \/ Preference(f) = Some("mistral") /\ ~portia_mistral
       \/ Preference(f) = Some("openai") /\ ~portia_openai
       \/ Preference(f) = Some("gemini")

\* C6: a request naming a provider that is not configured fails as provider
\* unavailable, with no run call on any provider.
C6_UnconfiguredPreferenceFails ==
    \A r \in Requests :
        LET f == rq[r] IN
        (NamesUnconfigured(f) /\ f.request.query \notin BlankTexts)
        => /\ f.calls = <<>>
           /\ f.pc = "return"
           /\ ~RobustAnswer(r).success
           /\ RobustAnswer(r).error = Some("No AI providers available")

\* The request names a provider the server has an instance of.
NamesConfigured(f, name) ==
    /\ f.supplied /\ Preference(f) = Some(name)
    /\ IF name = "mistral" THEN portia_mistral ELSE portia_openai

\* C7: a request naming a configured provider ("mistral" or "openai") makes
\* run calls on that provider only, and its response is labelled with that
\* provider only, also when every attempt fails.
C7_NamedProviderOnly ==
    \A r \in Requests : \A name \in {"mistral", "openai"} :
        LET f == rq[r] IN
        (f.pc # "idle" /\ NamesConfigured(f, name) /\ f.request.query \notin BlankTexts)
        => /\ \A i \in 1..Len(f.calls) : f.calls[i].provider = name
           /\ f.provider = name
           /\ (f.pc = "return" /\ RobustAnswer(r).kind = "QueryResponse")
                => RobustAnswer(r).model_used = Some(name)

C7_Witness ==
    \E r \in Requests :
        LET f == rq[r] IN
        /\ f.pc = "return" /\ NamesConfigured(f, "mistral") /\ portia_openai
        /\ Len(f.calls) = MaxRetries + 1
        /\ ~RobustAnswer(r).success
        /\ RobustAnswer(r).model_used = Some("mistral")

\* Nothing to extract: no result, no final_output, no step_outputs.
NothingToExtract(p) ==
    /\ p.result = None
    /\ \/ p.outputs = None
       \/ Get(p.outputs).final_output = None /\ Get(p.outputs).step_outputs = <<>>

\* C8: a run read as COMPLETE with nothing to extract gives success=false
\* with the error "No result found in completed run", after the one run call
\* of the request (main.py's /query).
C8_CompleteWithoutText ==
    \A r \in Requests :
        LET f == mq[r] IN
        (f.pc = "return" /\ f.handler = "query" /\ f.final_state = "COMPLETE"
            /\ NothingToExtract(f.payload))
        => /\ ~MainAnswer(r).success
           /\ MainAnswer(r).result = None
           /\ MainAnswer(r).error = Some("No result found in completed run")
           /\ ~MainAnswer(r).requires_user_action
           /\ Len(f.runs) = 1

C8_Witness ==
    \E r \in Requests :
        LET f == mq[r] IN
        /\ f.pc = "return" /\ f.handler = "query" /\ f.final_state = "COMPLETE"
        /\ Len(f.runs) = 1
        /\ f.payload.outputs = Some([final_output |-> None, step_outputs |-> <<>>])
        /\ MainAnswer(r).error = Some("No result found in completed run")

\* C9: a run that ended FAILED or CANCELLED never gives a success=true
\* response (main_robust's /api/query).
C9_FailedRunIsFailure ==
    \A r \in Requests :
        LET f == rq[r] IN
        (f.pc = "return" /\ f.calls # <<>> /\ Returned(f.calls[Len(f.calls)])
            /\ f.calls[Len(f.calls)].outcome.plan_run.state \in {"FAILED", "CANCELLED"})
        => ~RobustAnswer(r).success

\* C10: while one request's handler is in its backoff wait, another request
\* can be accepted (its handler can start).
C10_OthersProgressDuringWait ==
    \A r \in Requests, s \in Requests :
        (r # s /\ rq[r].pc = "sleep" /\ rq[s].pc = "idle")
        => ENABLED (\E q \in Queries, p \in PreferenceInputs : robust_process_query(s, q, p))

\* C11: once future.result has timed out, load_portia_registry_with_timeout
\* gives the load up and returns: its return is not held back by the worker,
\* so a load that never completes cannot keep start-up from going on.
C11_TimeoutAbandonsLoad ==
    (boot.pc = "executor_exit" /\ boot.timed_out) => ENABLED executor_exit

\* Every run call of the request raised.
AllRaised(f) ==
    f.calls # <<>> /\ \A i \in 1..Len(f.calls) : f.calls[i].outcome.kind = "raise"

\* The providers called for the request, each once, in the order of their
\* first call.
RECURSIVE Attempted(_)
Attempted(calls) ==
    IF calls = <<>> THEN <<>>
    ELSE LET before == Attempted(SubSeq(calls, 1, Len(calls) - 1))
             name == calls[Len(calls)].provider
         IN  IF \E i \in 1..Len(before) : before[i] = name THEN before
             ELSE Append(before, name)

RECURSIVE JoinArrow(_)
JoinArrow(names) ==
    IF Len(names) = 1 THEN names[1]
    ELSE JoinArrow(SubSeq(names, 1, Len(names) - 1)) \o "->" \o names[Len(names)]

\* C12: when every run call made for a request raised, the response is a
\* QueryResponse with success=false and no result, its error is the text of
\* the last call's exception, and model_used lists the providers attempted,
\* in order, joined by "->".
C12_AggregateFailure ==
    \A r \in Requests :
        LET f == rq[r] IN
        (f.pc = "return" /\ AllRaised(f))
        => /\ RobustAnswer(r).kind = "QueryResponse"
           /\ ~RobustAnswer(r).success
           /\ RobustAnswer(r).result = None
           /\ RobustAnswer(r).error = Some(f.calls[Len(f.calls)].outcome.error)
           /\ RobustAnswer(r).model_used = Some(JoinArrow(Attempted(f.calls)))

C12_Witness ==
    \E r \in Requests :
        LET f == rq[r] IN
        /\ f.pc = "return" /\ AllRaised(f)
        /\ Attempted(f.calls) = <<"mistral", "openai">>
        /\ f.calls[1].outcome.error = ErrAuth
        /\ RobustAnswer(r).error = Some(Err429)
        /\ RobustAnswer(r).model_used = Some("mistral->openai")

\* success=true goes with a result and no error, success=false with no result.
ResultXorError(a) ==
    /\ a.success => (~IsNone(a.result) /\ IsNone(a.error))
    /\ ~a.success => IsNone(a.result)

C14_NoExceptionEscapes ==
    \A r \in Requests :
        (rq[r].pc = "return" /\ rq[r].calls # <<>>)
        => RobustAnswer(r).kind = "QueryResponse"

\* Exception texts without "429" and without "capacity exceeded".
PermanentTexts == {ErrRateLimit, ErrQuota, ErrAuth}

\* OpenAI is the request's next candidate after Mistral.
OpenAINext(f) == portia_openai /\ Preference(f) # Some("mistral")

AttemptNo(f, i) ==
    Cardinality({j \in 1..i : f.calls[j].provider = f.calls[i].provider})

\* The i-th call was retried: a backoff wait on its provider followed it.
Retried(f, i) == Len(WaitsOf(f, f.calls[i].provider)) >= AttemptNo(f, i)

\* The four patterns of the claim, matched without regard to case.
MatchesClaimedPatterns(text) ==
    \/ Contains(lower(text), "rate limit")
    \/ Contains(lower(text), "quota")
    \/ Contains(text, "429")
    \/ Contains(lower(text), "capacity exceeded")

\* The two patterns of lines 229 and test_with_fallback.py line 33.
MatchesTwoPatterns(text) ==
    Contains(text, "429") \/ Contains(lower(text), "capacity exceeded")

\* C16 as stated: a raised error with retries left is retried on the same
\* provider exactly when its text matches rate limit, quota, "429" or
\* "capacity exceeded".
C16_RetriedIffFourPatterns ==
    \A r \in Requests :
        LET f == rq[r] IN
        \A i \in 1..Len(f.calls) :
            (f.calls[i].outcome.kind = "raise" /\ AttemptNo(f, i) <= MaxRetries)
            => (Retried(f, i) <=> MatchesClaimedPatterns(f.calls[i].outcome.error))

\* C16 amended: a raised error with retries left is retried on the same
\* provider exactly when its text contains "429" or, in any letter case,
\* "capacity exceeded"; a text with only "rate limit" or "quota" is not
\* retried, and no error is retried once max_retries retries were made.
C16_RetriedIffTwoPatterns ==
    \A r \in Requests :
        LET f == rq[r] IN
        \A i \in 1..Len(f.calls) :
            /\ (f.calls[i].outcome.kind = "raise" /\ AttemptNo(f, i) <= MaxRetries)
                => (Retried(f, i) <=> MatchesTwoPatterns(f.calls[i].outcome.error))
            /\ (f.calls[i].outcome.kind = "return" \/ AttemptNo(f, i) > MaxRetries)
                => ~Retried(f, i)

C16_Witness ==
    \E r \in Requests :
        LET f == rq[r] IN
        /\ Len(f.calls) = 2
        /\ f.calls[1].provider = "mistral" /\ Raised(f.calls[1], {ErrCapacity})
        /\ f.calls[2].provider = "mistral" /\ Raised(f.calls[2], {ErrRateLimit})
        /\ Retried(f, 1) /\ ~Retried(f, 2)
        /\ f.pc = "return"

MaxPolls == MaxWait \div PollInterval

\* C18: in main.process_query the wait advances in steps of 2 up to 60, so at
\* most 30 polls are made; the handler sleeps again only after a poll that
\* saw a non-terminal state and leaves the loop at the first poll that sees
\* COMPLETE, FAILED or CANCELLED or when waited has reached 60; a run read as
\* non-terminal after the loop gives success=false with the timeout error.
C18_PollLoopBounded ==
    \A r \in Requests :
        LET f == mq[r] IN
        f.handler = "query"
        => /\ f.waited % PollInterval = 0 /\ f.waited <= MaxWait
           /\ f.polls <= MaxPolls
           /\ f.pc = "sleep" => /\ f.polls = f.waited \div PollInterval + 1
                                /\ f.waited < MaxWait
                                /\ f.current_state \notin TerminalStates
           /\ f.pc = "poll" => /\ f.polls = f.waited \div PollInterval
                               /\ f.polls > 0 => f.current_state \notin TerminalStates
           /\ f.pc = "final" => \/ f.current_state \in TerminalStates
                                \/ f.waited = MaxWait /\ f.polls = MaxPolls
           /\ (f.pc = "return" /\ f.final_state \in RunStates \ TerminalStates)
                => /\ f.waited = MaxWait /\ f.polls = MaxPolls
                   /\ ~MainAnswer(r).success
                   /\ MainAnswer(r).result = None
                   /\ MainAnswer(r).error =
                        Some("Run timeout or cancelled (state: " \o f.final_state \o ")")

C18_Witness ==
    \E r \in Requests :
        LET f == mq[r] IN
        /\ f.handler = "query" /\ f.pc = "return"
        /\ f.polls = 30 /\ f.waited = 60
        /\ f.final_state = "RUNNING"
        /\ MainAnswer(r).error = Some("Run timeout or cancelled (state: RUNNING)")

\* C19: for a run with a non-empty top-level result and a final output,
\* extract_result_from_run returns the top-level result text, not a text of
\* the final output.
C19_TopLevelResultFirst ==
    (/\ ex.result_called
     /\ Truthy(ex.run.result)
     /\ ~IsNone(ex.run.outputs) /\ ~IsNone(Get(ex.run.outputs).final_output))
    => /\ ex.result_text = ex.run.result
       /\ ex.result_text \notin {Get(Get(ex.run.outputs).final_output).summary,
                                 Get(Get(ex.run.outputs).final_output).value}

C19_Witness ==
    /\ ex.result_called
    /\ ex.run.result = Some("R")
    /\ ~IsNone(ex.run.outputs)
    /\ Get(ex.run.outputs).final_output = Some(Output(Some("7"), Some("The sum is 7")))
    /\ ex.result_text = Some("R")

\* The five sources of a run, in the order of the claim.
Sources(run) ==
    LET final_out == IF IsNone(run.outputs) THEN None ELSE Get(run.outputs).final_output
        steps == IF IsNone(run.outputs) THEN <<>> ELSE Get(run.outputs).step_outputs
        step_result == IF HasKey(steps, "$result") THEN Some(Lookup(steps, "$result"))
                       ELSE None
    IN  << run.result,
           IF IsNone(final_out) THEN None ELSE Get(final_out).summary,
           IF IsNone(final_out) THEN None ELSE Get(final_out).value,
           IF IsNone(step_result) THEN None ELSE Get(step_result).summary,
           IF IsNone(step_result) THEN None ELSE Get(step_result).value >>

\* The first source that is present and non-empty (None: there is none).
FirstNonEmpty(sources) ==
    IF \E i \in 1..Len(sources) : Truthy(sources[i])
    THEN sources[CHOOSE i \in 1..Len(sources) :
                    Truthy(sources[i]) /\ \A j \in 1..(i - 1) : ~Truthy(sources[j])]
    ELSE None

\* C20: extract_result_from_run returns the first of result,
\* final_output.summary, final_output.value, step_outputs[$result].summary,
\* step_outputs[$result].value that is present and non-empty, skipping a
\* present-but-empty one, and yields no text only when none is non-empty.
C20_FirstNonEmptySource ==
    ex.result_called
    => IF Truthy(FirstNonEmpty(Sources(ex.run)))
       THEN ex.result_text = FirstNonEmpty(Sources(ex.run))
       ELSE ~Truthy(ex.result_text)

\* The keys of the run's step_outputs other than '$result', in the mapping's
\* order (no keys when the run has no outputs).
ToolKeys(run) ==
    LET steps == IF IsNone(run.outputs) THEN <<>> ELSE Get(run.outputs).step_outputs
        keys == [i \in 1..Len(steps) |-> steps[i][1]]
    IN  SelectSeq(keys, LAMBDA k : k # "$result")

\* C21 as stated: extract_tools_used always returns a sequence, possibly
\* empty: the keys of step_outputs other than '$result', in order.
C21_ToolsAlwaysSequence ==
    ex.tools_called => ex.tools_used = Some(ToolKeys(ex.run))

\* C21 amended: extract_tools_used returns the keys of step_outputs other
\* than '$result', in the mapping's order, when there is at least one such
\* key, and None when there is none; '$result' is never in what it returns.
C21_ToolsOrNone ==
    ex.tools_called
    => /\ ex.tools_used = IF ToolKeys(ex.run) # <<>> THEN Some(ToolKeys(ex.run)) ELSE None
       /\ ~IsNone(ex.tools_used)
            => \A i \in 1..Len(Get(ex.tools_used)) : Get(ex.tools_used)[i] # "$result"

C21_Witness ==
    /\ ex.tools_called
    /\ ~IsNone(ex.run.outputs)
    /\ Len(Get(ex.run.outputs).step_outputs) = 3
    /\ Get(ex.run.outputs).step_outputs[2][1] = "$result"
    /\ ex.tools_used = Some(<<"search", "calculator">>)

PrimaryRunFailed(f) ==
    /\ f.handler = "query" /\ f.pc = "return" /\ f.runs # <<>>
    /\ f.polls = 0 \/ f.final_state = "FAILED"

\* C23: when the run of a /query request fails (an exception or a FAILED
\* final state), a second run, on the Mistral fallback, is made before the
\* failure response is returned.
C23_FallbackBeforeFailure ==
    \A r \in Requests :
        (PrimaryRunFailed(mq[r]) /\ ~MainAnswer(r).success) => Len(mq[r].runs) >= 2

\* The ClarificationModel a handler builds from a clarification dict.
ExpectedClarification(handler, clarification) ==
    [type |-> IF clarification.type = None THEN "user_input" ELSE Get(clarification.type),
     message |-> IF clarification.message # None THEN Get(clarification.message)
                 ELSE IF handler = "query" THEN "User action required"
                 ELSE "Additional user action required"]

\* C24: a poll (a pass of the wait loop with waited < 60) that finds the run
\* with a non-empty clarifications list returns at once: success=false,
\* requires_user_action=true, the first clarification, no result and no
\* error, whatever the run state at that poll, COMPLETE included.
C24_ClarificationEndsAttempt ==
    [][\A r \in Requests :
        (/\ mq[r].pc = "poll" /\ mq[r].waited < MaxWait
         /\ mq[r].run.clarifications # <<>>
         /\ mq'[r].pc # "poll")
        => /\ mq'[r].pc = "return"
           /\ mq'[r].polls = mq[r].polls + 1
           /\ mq'[r].final_state = "none"
           /\ LET a == Get(mq'[r].response) IN
              /\ a.kind = "QueryResponse"
              /\ ~a.success /\ a.requires_user_action
              /\ a.result = None /\ a.error = None
              /\ a.clarification =
                    Some(ExpectedClarification(mq[r].handler, mq[r].run.clarifications[1]))]_vars

C24_Witness ==
    \E r \in Requests :
        LET f == mq[r] IN
        /\ f.handler = "query" /\ f.pc = "return" /\ f.polls > 1
        /\ f.run.state = "COMPLETE" /\ f.current_state = "COMPLETE"
        /\ Len(f.run.clarifications) = 2
        /\ MainAnswer(r).requires_user_action
        /\ MainAnswer(r).clarification =
                Some([type |-> "user_input", message |-> "User action required"])

\* C25: when initialize_providers' try block raised and its except branch
\* built the open-source-only Portia, /health reports provider.available =
\* true and /query does not fail with "No Portia instances available".
C25_FallbackInstanceUsable ==
    \A r \in Requests :
        LET f == mq[r] IN
        (boot.fallback = "built" /\ f.pc = "return")
        => /\ f.handler = "health" => MainAnswer(r).provider_available
           /\ f.handler = "query"
                => MainAnswer(r).error # Some("No Portia instances available")

\* C26: on each provider execute_with_retry makes at most max_retries + 1
\* run calls; wait number n follows the n-th call, which raised a rate-limit
\* error and was not the last attempt, and lasts 2^(n-1) * 5; a failure
\* response carries the text of the last call's exception, never
\* "Max retries exceeded".
C26_RetryBounded ==
    \A r \in Requests : \A name \in {"mistral", "openai"} :
        LET f == rq[r]
            c == CallsOf(f, name)
            w == WaitsOf(f, name)
        IN  /\ Len(c) <= MaxRetries + 1
            /\ Len(w) <= MaxRetries /\ Len(w) <= Len(c) /\ Len(w) >= Len(c) - 1
            /\ \A n \in 1..Len(w) :
                    /\ w[n].wait_time = Pow(2, n - 1) * 5
                    /\ c[n].outcome.kind = "raise"
                    /\ MatchesTwoPatterns(c[n].outcome.error)
            /\ (f.pc = "sleep" /\ f.provider = name) => Len(w) = Len(c)
            /\ (f.pc = "return" /\ f.calls # <<>> /\ RobustAnswer(r).kind = "QueryResponse"
                    /\ ~RobustAnswer(r).success)
                => /\ f.calls[Len(f.calls)].outcome.kind = "raise"
                   /\ RobustAnswer(r).error = Some(f.calls[Len(f.calls)].outcome.error)
                   /\ RobustAnswer(r).error # Some("Max retries exceeded")

C26_Witness ==
    \E r \in Requests :
        LET f == rq[r] IN
        /\ f.pc = "return" /\ Preference(f) = Some("openai")
        /\ Len(CallsOf(f, "openai")) = 3 /\ Len(f.calls) = 3
        /\ Raised(f.calls[1], {Err429}) /\ Raised(f.calls[2], {ErrCapacity})
        /\ Raised(f.calls[3], {Err429})
        /\ Len(f.waits) = 2 /\ f.waits[1].wait_time = 5 /\ f.waits[2].wait_time = 10
        /\ RobustAnswer(r).error = Some(Err429)

\* C27: the response of /query after the poll loop follows the run state read
\* once after the loop, not the last polled state: it is the timeout error
\* exactly when that read is neither COMPLETE nor FAILED, and a run read as
\* COMPLETE with a result text is answered as a success.
C27_BranchFromFinalRead ==
    \A r \in Requests :
        LET f == mq[r]
            timeout == \E state \in RunStates :
                          MainAnswer(r).error =
                              Some("Run timeout or cancelled (state: " \o state \o ")")
        IN  (f.handler = "query" /\ f.pc = "return" /\ f.final_state # "none")
            => /\ f.final_state = f.run.state
               /\ timeout <=> f.final_state \notin {"COMPLETE", "FAILED"}
               /\ (f.final_state = "COMPLETE" /\ Truthy(extract_result_from_run(f.payload)))
                    => /\ MainAnswer(r).success
                       /\ MainAnswer(r).result = extract_result_from_run(f.payload)
               /\ f.final_state = "FAILED"
                    => MainAnswer(r).error \in {Some("Run failed: Unknown error"),
                                                Some("Run failed: tool crashed")}

C27_Witness ==
    \E r \in Requests :
        LET f == mq[r] IN
        /\ f.handler = "query" /\ f.pc = "return"
        /\ f.waited = MaxWait /\ f.current_state = "RUNNING"
        /\ f.final_state = "COMPLETE"
        /\ MainAnswer(r).success /\ MainAnswer(r).result = Some("R")

\* C28: /query runs on the instance of the requested registry when that
\* instance exists; otherwise on the cloud instance if it exists, else on the
\* open-source instance; with no instance it fails without a run call.  A
\* success response names the instance the run was made on.
C28_InstanceSelection ==
    \A r \in Requests :
        LET f == mq[r]
            exists == (IF portia_instance_cloud THEN {"cloud"} ELSE {}) \cup
                      (IF portia_instance_open_source THEN {"open_source"} ELSE {})
            chosen == IF f.tool_registry \in exists THEN f.tool_registry
                      ELSE IF "cloud" \in exists THEN "cloud"
                      ELSE IF "open_source" \in exists THEN "open_source"
                      ELSE "none"
        IN  (f.handler = "query" /\ f.pc # "idle")
            => /\ chosen = "none"
                    => /\ f.runs = <<>> /\ f.pc = "return"
                       /\ ~MainAnswer(r).success
                       /\ MainAnswer(r).error = Some("No Portia instances available")
               /\ chosen # "none"
                    => /\ f.runs \in {<<>>, <<chosen>>}
                       /\ f.runs = <<>> => (f.pc = "return" /\ strip(f.message) = "")
               /\ (f.pc = "return" /\ MainAnswer(r).success)
                    => /\ f.runs = <<chosen>>
                       /\ MainAnswer(r).tool_registry_used = Some(f.runs[1])

C28_Witness ==
    \E r \in Requests :
        LET f == mq[r] IN
        /\ portia_instance_cloud /\ portia_instance_open_source
        /\ f.handler = "query" /\ f.pc = "return" /\ f.tool_registry = "open_source"
        /\ f.runs = <<"open_source">>
        /\ MainAnswer(r).success
        /\ MainAnswer(r).tool_registry_used = Some("open_source")

\* C29: handle_clarification looks the run up on the cloud instance first and
\* on the open-source instance only if the cloud lookup found nothing; it
\* calls respond_to_clarification only on a run it found; when no lookup
\* finds the run, or there is no instance, it answers success = false with a
\* 'Plan run not found' error and has responded to no run.
C29_RespondOnlyToFoundRun ==
    \A r \in Requests :
        LET f == mq[r] IN
        (f.handler = "clarification" /\ f.pc # "idle")
        => /\ f.lookups = (IF portia_instance_cloud THEN <<"cloud">> ELSE <<>>) \o
                          (IF portia_instance_open_source /\ f.registry_used # "cloud"
                           THEN <<"open_source">> ELSE <<>>)
           /\ f.responded # <<>>
                => /\ f.lookups # <<>>
                   /\ f.responded = <<f.lookups[Len(f.lookups)]>>
                   /\ f.registry_used = f.responded[1]
           /\ f.registry_used = "none"
                => /\ f.responded = <<>>
                   /\ f.pc = "return"
                   /\ f.run = MainIdle.run /\ f.polls = 0
                   /\ ~MainAnswer(r).success
                   /\ \E id \in PlanRunIds :
                        MainAnswer(r).error =
                            Some("Clarification handling failed: Plan run not found: " \o id)

C29_Witness ==
    \E r \in Requests :
        LET f == mq[r] IN
        /\ f.handler = "clarification" /\ f.pc = "return"
        /\ f.lookups = <<"cloud", "open_source">>
        /\ f.registry_used = "none" /\ f.responded = <<>>
        /\ Contains(Get(MainAnswer(r).error), "Plan run not found")

\* C30: the status of main_robust /health is "degraded" iff neither provider
\* instance exists, "fallback_mode" iff Mistral is absent and OpenAI present,
\* "healthy" iff Mistral is present; and a non-empty query with preference
\* "auto" invokes a provider iff the status /health gives is not "degraded".
C30_HealthStatusTotal ==
    \A r \in Requests :
        LET f == rq[r] IN
        /\ (f.pc = "return" /\ RobustAnswer(r).kind = "HealthResponse")
            => LET status == RobustAnswer(r).status IN
               /\ status \in {"degraded", "fallback_mode", "healthy"}
               /\ status = "degraded" <=> (~portia_mistral /\ ~portia_openai)
               /\ status = "fallback_mode" <=> (~portia_mistral /\ portia_openai)
               /\ status = "healthy" <=> portia_mistral
        /\ (f.pc # "idle" /\ f.supplied /\ Preference(f) = Some("auto")
                /\ strip(f.request.query) # "")
            => ((f.calls # <<>> \/ f.pc = "run")
                <=> HealthResponse(portia_mistral, portia_openai).status # "degraded")

C30_Witness ==
    \E r \in Requests :
        /\ rq[r].pc = "return" /\ RobustAnswer(r).kind = "HealthResponse"
        /\ ~portia_mistral /\ portia_openai
        /\ RobustAnswer(r).status = "fallback_mode"

====
